---- MODULE Spec2Model ----
(***************************************************************************)
(* Keyword index and ranking engine of chatbot-api:                        *)
(*   app/cluster_recommender.py  (ClusterRecommender, find_best_cluster)   *)
(*   app/article_recommender.py  (ArticleRecommender,                      *)
(*                                find_articles_by_keywords)               *)
(* Strings are sequences of one-character strings, so that lower(),        *)
(* strip() and the substring test `in` are computed and not assumed.       *)
(* Scores are integers in units of 0.0001: round(x, 4) of the code is      *)
(* Round4 of the exact rational x.                                         *)
(* Spec, SpecClusters, SpecArticles, SpecScenario, SpecRepeat, SpecLoad    *)
(* and SpecFive take one call at a time; SpecThreads runs the calls of two *)
(* worker threads step by step; SpecServices calls the rankers through     *)
(*   app/services/nlp_parser.py           (KeywordExtractor.extract)       *)
(*   app/services/themes_recomendations.py (ThemesRecommender.recommend)   *)
(***************************************************************************)
EXTENDS Integers, Sequences, FiniteSets, TLC

VARIABLES
    files,                        \* the four JSON resources read at load
    fileStatus,                   \* what open() and json.load() find for each resource
    hashOrder,                    \* iteration order of str sets in this process
    cluster_recommender_instance, \* _cluster_recommender_instance (<<>> is None)
    recommender_instance,         \* _recommender_instance (<<>> is None)
    heap,                         \* per class: objects made, identity of the singleton
    pc,                           \* "idle", "returned", "repeated" or "failed"
    call,                         \* last call: [op, keywords, top_n]
    results,                      \* list returned by the last call
    raised,                       \* exception raised by the last call, or "none"
    lookups,                      \* keyword_to_clusters.get calls of the last call
    previous,                     \* list returned by the call before, when it is repeated
    threads,                      \* worker threads: position and locals of each
    vocabulary,                   \* the terms of keywords.json
    vocabOrder,                   \* iteration order of vocabulary_lower in this process
    service                       \* last call of a service: [op, answer, keywords, items]

vars == <<files, fileStatus, hashOrder, cluster_recommender_instance, recommender_instance,
          heap, pc, call, results, raised, lookups, previous, threads,
          vocabulary, vocabOrder, service>>

\* what no step of the process writes
static == <<files, fileStatus, hashOrder, vocabulary, vocabOrder>>

----------------------------------------------------------------------------
(* Bounds of the checked input space *)

MaxPmcLen == 2      \* article ids per cluster in clustersPMC.json
MaxQueryLen == 3    \* keywords in one query
MaxTopN == 2        \* top_n / limit of one call

(* Program constant: queries are cut to their first 5 keywords *)
MaxKeywords == 5

ClusterIds == {"0", "23"}
PmcIds == {"PMC_A", "PMC_B"}

\* keyword lists a cluster may have in unigramKeywords.json and in
\* bigramKeywords.json; "A " of the second file normalizes to "a" of the first
UniLists == { <<>>, << <<"a">> >>, << <<" ", "B">> >>, << <<"a">>, <<" ", "B">> >> }
BiLists == { <<>>, << <<"A", " ">> >> }
QueryPool == { <<"A", " ">>, <<"b">> }
TitlePool == { <<>>, <<"A", " ", "b">>, <<"b">> }

BSeq(S, n) == UNION {[1..k -> S] : k \in 0..n}
PartialFns(D, R) == UNION {[S -> R] : S \in SUBSET D}
Orders(S) == {p \in [1..Cardinality(S) -> S] : \A x \in S : \E i \in DOMAIN p : p[i] = x}

----------------------------------------------------------------------------
(* str.lower(), str.strip(), `a in b` *)

LowerChar(c) == IF c = "A" THEN "a" ELSE IF c = "B" THEN "b" ELSE c

Lower(s) == [i \in 1..Len(s) |-> LowerChar(s[i])]

IsSpace(c) == c = " "

RECURSIVE LStrip(_)
LStrip(s) == IF s # <<>> /\ IsSpace(Head(s)) THEN LStrip(Tail(s)) ELSE s

RECURSIVE RStrip(_)
RStrip(s) == IF s # <<>> /\ IsSpace(s[Len(s)]) THEN RStrip(SubSeq(s, 1, Len(s) - 1)) ELSE s

Strip(s) == RStrip(LStrip(s))

\* keyword.lower().strip()
Normalize(kw) == Strip(Lower(kw))

\* sub in s
Contains(s, sub) == \E i \in 0..(Len(s) - Len(sub)) : SubSeq(s, i + 1, i + Len(sub)) = sub

----------------------------------------------------------------------------
(* dict.get, list slicing, set iteration, list.sort *)

Get(d, k, default) == IF k \in DOMAIN d THEN d[k] ELSE default

\* d.setdefault(k, default) in place of d.get(k, default): a missing key is added
DictAfterGet_SetDefault(d, k) == IF k \in DOMAIN d THEN d ELSE (k :> <<>>) @@ d

\* d.pop(k, default) in place of d.get(k, default): the key is taken out
DictAfterGet_Pop(d, k) == [kk \in DOMAIN d \ {k} |-> d[kk]]

\* d after d.get(k, default): the dict is read, not written
DictAfterGet(d, k) == d

\* d after `for k in keys: ... d.get(k, default) ...`
RECURSIVE DictAfterGets(_, _)
DictAfterGets(d, keys) ==
    IF keys = <<>> THEN d ELSE DictAfterGets(DictAfterGet(d, Head(keys)), Tail(keys))

\* the members of a set, one after the other
RECURSIVE SeqOf(_)
SeqOf(S) == IF S = {} THEN <<>> ELSE LET x == CHOOSE y \in S : TRUE IN <<x>> \o SeqOf(S \ {x})

Min(a, b) == IF a < b THEN a ELSE b

Range(s) == {s[i] : i \in DOMAIN s}

\* s[-n:] in place of s[:n]: the last n entries
Take_FromEnd(s, n) == SubSeq(s, Len(s) - Min(n, Len(s)) + 1, Len(s))

\* s[:n] for n >= 0
Take(s, n) == SubSeq(s, 1, Min(n, Len(s)))

\* the order in which `for x in S` visits a set of cluster ids
IterSet(S) == SelectSeq(hashOrder, LAMBDA c : c \in S)

\* the order in which `for k, v in d.items()` visits a dict loaded from JSON
KeySeq(d) == SelectSeq(hashOrder, LAMBDA c : c \in DOMAIN d)

\* position of x in a stably sorted list: after every entry with key >= x.key
RECURSIVE InsertDesc(_, _)
InsertDesc(sorted, x) ==
    IF sorted = <<>> THEN <<x>>
    ELSE IF Head(sorted).key >= x.key THEN <<Head(sorted)>> \o InsertDesc(Tail(sorted), x)
    ELSE <<x>> \o sorted

\* list.sort(key=..., reverse=True) on entries [key, item]: stable, descending
RECURSIVE SortDesc(_)
SortDesc(s) == IF s = <<>> THEN <<>> ELSE InsertDesc(SortDesc(SubSeq(s, 1, Len(s) - 1)), s[Len(s)])

Items(s) == [i \in 1..Len(s) |-> s[i].item]

----------------------------------------------------------------------------
(* Exact fractions n/d, and round(x, 4) in units of 0.0001 *)

Scale == 10000

Rat(n, d) == [n |-> n, d |-> d]
RatMul(x, y) == Rat(x.n * y.n, x.d * y.d)
RatAdd(x, y) == Rat(x.n * y.d + y.n * x.d, x.d * y.d)

\* int(x * 10000) / 10000 in place of round(x, 4)
Round4_Truncating(x) == (Scale * x.n) \div x.d

\* round(x, 4); no score of a query of at most 5 keywords lies on a rounding tie
Round4(x) == (2 * Scale * x.n + x.d) \div (2 * x.d)

----------------------------------------------------------------------------
(* defaultdict(set): d[k].add(x) *)

SetAdd(d, k, x) == [kk \in DOMAIN d \cup {k} |-> IF kk = k THEN Get(d, k, {}) \cup {x} ELSE d[kk]]

EmptyDict == <<>>

None == <<>>

----------------------------------------------------------------------------
(* with open(path) as f: data = json.load(f), and the first use of data *)

FileNames == {"articles", "clusters", "unigram", "bigram"}

\* open() and json.load() in a try block whose except returns an empty dict
ReadJson_Swallowed(st) == "none"

\* the exception of open() or json.load(), if any
ReadJson(st) ==
    IF st = "missing" THEN "FileNotFoundError"
    ELSE IF st = "unreadable" THEN "PermissionError"
    ELSE IF st = "malformed" THEN "JSONDecodeError"
    ELSE "none"

\* data.get(...) or data.items() on parsed JSON that is not an object
ReadDict(st) ==
    IF ReadJson(st) # "none" THEN ReadJson(st)
    ELSE IF st = "not_object" THEN "AttributeError"
    ELSE "none"

\* the first exception met while the resources are read in this order
RECURSIVE FirstError(_, _)
FirstError(status, names) ==
    IF names = <<>> THEN "none"
    ELSE IF ReadDict(status[Head(names)]) # "none" THEN ReadDict(status[Head(names)])
    ELSE FirstError(status, Tail(names))

\* the parsed JSON object: the content under its top-level key, if it has the key
Document(key, content, st) == IF st = "no_key" THEN EmptyDict ELSE (key :> content)

----------------------------------------------------------------------------
(* ClusterRecommender *)

\* for keyword in keywords: cluster_kws[cluster_id].add(keyword.lower().strip())
RECURSIVE AddKeywords(_, _, _)
AddKeywords(cluster_kws, cluster_id, keywords) ==
    IF keywords = <<>> THEN cluster_kws
    ELSE AddKeywords(SetAdd(cluster_kws, cluster_id, Normalize(Head(keywords))),
                     cluster_id, Tail(keywords))

\* for cluster_id, keywords in <file>.items(): ...
RECURSIVE AddFile(_, _, _)
AddFile(cluster_kws, file, keys) ==
    IF keys = <<>> THEN cluster_kws
    ELSE AddFile(AddKeywords(cluster_kws, Head(keys), file[Head(keys)]), file, Tail(keys))

LoadClusterKeywords(f) ==
    LET unigrams == AddFile(EmptyDict, f.unigram, KeySeq(f.unigram))
    IN AddFile(unigrams, f.bigram, KeySeq(f.bigram))

\* for keyword in keywords: keyword_index[keyword].add(cluster_id)
RECURSIVE IndexKeywords(_, _, _)
IndexKeywords(keyword_index, cluster_id, keywords) ==
    IF keywords = {} THEN keyword_index
    ELSE LET keyword == CHOOSE k \in keywords : TRUE
         IN IndexKeywords(SetAdd(keyword_index, keyword, cluster_id),
                          cluster_id, keywords \ {keyword})

RECURSIVE IndexClusters(_, _, _)
IndexClusters(keyword_index, cluster_keywords, keys) ==
    IF keys = <<>> THEN keyword_index
    ELSE IndexClusters(IndexKeywords(keyword_index, Head(keys), cluster_keywords[Head(keys)]),
                       cluster_keywords, Tail(keys))

ClusterBuildKeywordIndex(cluster_keywords) ==
    IndexClusters(EmptyDict, cluster_keywords, KeySeq(cluster_keywords))

\* ClusterRecommender.__init__, when both keyword files load
NewClusterRecommender(f) ==
    LET cluster_keywords == LoadClusterKeywords(f)
    IN [cluster_keywords |-> cluster_keywords,
        keyword_to_clusters |-> ClusterBuildKeywordIndex(cluster_keywords)]

\* ClusterRecommender(): the new object, or the exception __init__ lets through
ConstructClusterRecommender(f, status) ==
    LET exc == FirstError(status, <<"unigram", "bigram">>)
    IN IF exc # "none" THEN [raised |-> exc, obj |-> None]
       ELSE [raised |-> "none", obj |-> <<NewClusterRecommender(f)>>]

----------------------------------------------------------------------------
(* Steps shared by find_best_cluster and find_articles_by_keywords *)

\* the query scored as given, however long
Truncate_None(keywords) == keywords

\* keywords = keywords[:5] when more than 5 were given
Truncate(keywords) ==
    IF Len(keywords) > MaxKeywords THEN SubSeq(keywords, 1, MaxKeywords) ELSE keywords

NormalizeAll(keywords) == [i \in 1..Len(keywords) |-> Normalize(keywords[i])]

\* cluster_scores: a dict in insertion order of {"count", "keywords"}
EmptyScores == [order |-> <<>>, count |-> EmptyDict, keywords |-> EmptyDict]

\* the count goes up only when the keyword is new to the cluster's matched set
Hit_CountsOnce(cs, cluster_id, keyword) ==
    [order |-> IF cluster_id \in DOMAIN cs.count THEN cs.order ELSE Append(cs.order, cluster_id),
     count |-> (cluster_id :> Cardinality(Get(cs.keywords, cluster_id, {}) \cup {keyword}))
                   @@ cs.count,
     keywords |-> SetAdd(cs.keywords, cluster_id, keyword)]

\* cluster_scores[cluster_id]["count"] += 1; ...["keywords"].add(keyword)
Hit(cs, cluster_id, keyword) ==
    [order |-> IF cluster_id \in DOMAIN cs.count THEN cs.order ELSE Append(cs.order, cluster_id),
     count |-> (cluster_id :> (Get(cs.count, cluster_id, 0) + 1)) @@ cs.count,
     keywords |-> SetAdd(cs.keywords, cluster_id, keyword)]

\* for cluster_id in matching_clusters: ...
RECURSIVE HitAll(_, _, _)
HitAll(cs, matching_clusters, keyword) ==
    IF matching_clusters = <<>> THEN cs
    ELSE HitAll(Hit(cs, Head(matching_clusters), keyword), Tail(matching_clusters), keyword)

\* for keyword in normalized_keywords: matching_clusters = index.get(keyword, set()); ...
RECURSIVE ScoreKeywords(_, _, _)
ScoreKeywords(keyword_to_clusters, normalized_keywords, cs) ==
    IF normalized_keywords = <<>> THEN cs
    ELSE LET keyword == Head(normalized_keywords)
             matching_clusters == Get(keyword_to_clusters, keyword, {})
         IN ScoreKeywords(keyword_to_clusters, Tail(normalized_keywords),
                          HitAll(cs, IterSet(matching_clusters), keyword))

\* what a call hands back: the list, the exception if any, the index reads made,
\* and the recommender object as the call leaves it
Returned(value, nlookups, self) ==
    [value |-> value, raised |-> "none", lookups |-> nlookups, self |-> self]
Raised(exc, nlookups, self) ==
    [value |-> <<>>, raised |-> exc, lookups |-> nlookups, self |-> self]

----------------------------------------------------------------------------
(* ClusterRecommender.find_best_cluster *)

\* matched_keywords filled with the cluster's keywords, matched or not
ClusterResult_AllOfCluster(self, cluster_scores, cluster_id, nkeywords) ==
    [cluster_id |-> cluster_id,
     relevance_score |-> Round4(Rat(cluster_scores.count[cluster_id], nkeywords)),
     matched_keywords |-> Get(self.cluster_keywords, cluster_id, {}),
     total_keywords_in_cluster |-> Cardinality(Get(self.cluster_keywords, cluster_id, {}))]

ClusterResult(self, cluster_scores, cluster_id, nkeywords) ==
    [cluster_id |-> cluster_id,
     relevance_score |-> Round4(Rat(cluster_scores.count[cluster_id], nkeywords)),
     matched_keywords |-> cluster_scores.keywords[cluster_id],
     total_keywords_in_cluster |-> Cardinality(Get(self.cluster_keywords, cluster_id, {}))]

\* results[:top_n] without the sort
RankResults_Unsorted(res, top_n) == Take(res, top_n)

\* the sort with the size of the cluster's keyword set as second key
RankResults_ThenByTotal(res, top_n) ==
    LET keyed == [i \in 1..Len(res) |->
                    [key |-> res[i].relevance_score * 100 + res[i].total_keywords_in_cluster,
                     item |-> res[i]]]
    IN Take(Items(SortDesc(keyed)), top_n)

\* results.sort(key=relevance_score, reverse=True); return results[:top_n]
RankResults(res, top_n) ==
    LET keyed == [i \in 1..Len(res) |-> [key |-> res[i].relevance_score, item |-> res[i]]]
    IN Take(Items(SortDesc(keyed)), top_n)

\* find_best_cluster past the empty-query return
BestClusterFor(self, keywords, top_n) ==
    LET normalized_keywords == NormalizeAll(Truncate(keywords))
        n == Len(normalized_keywords)
        cluster_scores == ScoreKeywords(self.keyword_to_clusters, normalized_keywords,
                                        EmptyScores)
        index == DictAfterGets(self.keyword_to_clusters, normalized_keywords)
    IN IF cluster_scores.order = <<>>
       THEN Returned(<<>>, n, [self EXCEPT !.keyword_to_clusters = index])
       ELSE LET res == [i \in 1..Len(cluster_scores.order) |->
                           ClusterResult(self, cluster_scores, cluster_scores.order[i], n)]
            IN Returned(RankResults(res, top_n), n,
                        [cluster_keywords |-> DictAfterGets(self.cluster_keywords,
                                                            cluster_scores.order),
                         keyword_to_clusters |-> index])

FindBestCluster(self, keywords, top_n) ==
    IF keywords = <<>> THEN Returned(<<>>, 0, self)
    ELSE BestClusterFor(self, keywords, top_n)

----------------------------------------------------------------------------
(* ArticleRecommender *)

\* the index keyed by keyword.lower(), without strip()
RECURSIVE ArticleIndexKeywords_Unstripped(_, _, _)
ArticleIndexKeywords_Unstripped(keyword_index, cluster_id, keywords) ==
    IF keywords = <<>> THEN keyword_index
    ELSE ArticleIndexKeywords_Unstripped(SetAdd(keyword_index, Lower(Head(keywords)), cluster_id),
                                         cluster_id, Tail(keywords))

\* for keyword in keywords: keyword_index[keyword.lower().strip()].add(cluster_id)
RECURSIVE ArticleIndexKeywords(_, _, _)
ArticleIndexKeywords(keyword_index, cluster_id, keywords) ==
    IF keywords = <<>> THEN keyword_index
    ELSE ArticleIndexKeywords(SetAdd(keyword_index, Normalize(Head(keywords)), cluster_id),
                              cluster_id, Tail(keywords))

\* for cluster_id, keywords in <file>.items(): ...
RECURSIVE ArticleIndexFile(_, _, _)
ArticleIndexFile(keyword_index, file, keys) ==
    IF keys = <<>> THEN keyword_index
    ELSE ArticleIndexFile(ArticleIndexKeywords(keyword_index, Head(keys), file[Head(keys)]),
                          file, Tail(keys))

\* the index built from unigramKeywords.json alone
ArticleBuildKeywordIndex_UnigramsOnly(f) ==
    ArticleIndexFile(EmptyDict, f.unigram, KeySeq(f.unigram))

ArticleBuildKeywordIndex(f) ==
    LET unigrams == ArticleIndexFile(EmptyDict, f.unigram, KeySeq(f.unigram))
    IN ArticleIndexFile(unigrams, f.bigram, KeySeq(f.bigram))

\* a file that lacks "articles" is taken for one that has no article
LoadPmcToTitle_Strict(f, status) == f.articles

\* _load_pmc_to_title: data.get("articles", {})
LoadPmcToTitle(f, status) ==
    Get(Document("articles", f.articles, status.articles), "articles", EmptyDict)

\* _load_clusters_pmc: data.get("clusters", {})
LoadClustersPmc(f, status) ==
    Get(Document("clusters", f.clusters, status.clusters), "clusters", EmptyDict)

\* ArticleRecommender.__init__, when the four files load
NewArticleRecommender(f, status) ==
    [pmc_to_title |-> LoadPmcToTitle(f, status),
     clusters_pmc |-> LoadClustersPmc(f, status),
     keyword_to_clusters |-> ArticleBuildKeywordIndex(f)]

\* ArticleRecommender(): the new object, or the exception __init__ lets through
ConstructArticleRecommender(f, status) ==
    LET exc == FirstError(status, <<"articles", "clusters", "unigram", "bigram">>)
    IN IF exc # "none" THEN [raised |-> exc, obj |-> None]
       ELSE [raised |-> "none", obj |-> <<NewArticleRecommender(f, status)>>]

\* the keywords matched as the index matches them: lower().strip()
FindMatchedKeywords_Stripped(title, keywords) ==
    SelectSeq(keywords, LAMBDA keyword : Contains(Lower(title), Normalize(keyword)))

\* _find_matched_keywords: the keywords whose lower() occurs in title.lower()
FindMatchedKeywords(title, keywords) ==
    SelectSeq(keywords, LAMBDA keyword : Contains(Lower(title), Lower(keyword)))

\* cluster_score + 0.2 * title_boost: the boost added, not scaled by the cluster
FinalScore_Additive(cluster_score, title_boost) ==
    RatAdd(cluster_score, RatMul(Rat(2, 10), title_boost))

\* the title given half of the weight: cluster_score * (0.5 + 0.5 * title_boost)
FinalScore_HalfBoost(cluster_score, title_boost) ==
    RatMul(cluster_score, RatAdd(Rat(5, 10), RatMul(Rat(5, 10), title_boost)))

\* final_score = cluster_score * (0.8 + 0.2 * title_boost)
FinalScore(cluster_score, title_boost) ==
    RatMul(cluster_score, RatAdd(Rat(8, 10), RatMul(Rat(2, 10), title_boost)))

\* no check against seen_pmcs
AlreadySeen_Never(acc, pmc_id) == FALSE

\* if pmc_id in seen_pmcs: continue
AlreadySeen(acc, pmc_id) == pmc_id \in acc.seen_pmcs

\* self.pmc_to_title.get(pmc_id, pmc_id): the id stands in for a missing title
TitleOf_FallsBackToId(self, pmc_id) == Get(self.pmc_to_title, pmc_id, <<"P", "M", "C">>)

\* title = self.pmc_to_title.get(pmc_id, "")
TitleOf(self, pmc_id) == Get(self.pmc_to_title, pmc_id, <<>>)

\* no check of the title
HasNoTitle_Never(title) == FALSE

\* if not title: continue
HasNoTitle(title) == title = <<>>

\* body of `for pmc_id in pmc_ids`; acc is [all_candidates, seen_pmcs]
Candidate(self, acc, pmc_id, cluster_id, cluster_score, matched, keywords) ==
    IF AlreadySeen(acc, pmc_id) THEN acc
    ELSE LET seen == acc.seen_pmcs \cup {pmc_id}
             title == TitleOf(self, pmc_id)
         IN IF HasNoTitle(title) THEN [acc EXCEPT !.seen_pmcs = seen]
            ELSE LET matched_in_title == FindMatchedKeywords(title, keywords)
                     title_boost == Rat(Len(matched_in_title), Len(keywords))
                     final_score == FinalScore(cluster_score, title_boost)
                 IN [all_candidates |-> Append(acc.all_candidates,
                        [pmc_id |-> pmc_id,
                         title |-> title,
                         relevance_score |-> Round4(final_score),
                         cluster_id |-> cluster_id,
                         matched_keywords |-> matched]),
                     seen_pmcs |-> seen]

RECURSIVE CollectCluster(_, _, _, _, _, _, _)
CollectCluster(self, acc, pmc_ids, cluster_id, cluster_score, matched, keywords) ==
    IF pmc_ids = <<>> THEN acc
    ELSE CollectCluster(self,
            Candidate(self, acc, Head(pmc_ids), cluster_id, cluster_score, matched, keywords),
            Tail(pmc_ids), cluster_id, cluster_score, matched, keywords)

\* for cluster_id, score_info in sorted_clusters: ...
RECURSIVE CollectAll(_, _, _, _, _, _)
CollectAll(self, acc, sorted_clusters, cluster_scores, keywords, nkeywords) ==
    IF sorted_clusters = <<>> THEN acc
    ELSE LET cluster_id == Head(sorted_clusters)
             cluster_score == Rat(cluster_scores.count[cluster_id], nkeywords)
             pmc_ids == Get(self.clusters_pmc, cluster_id, <<>>)
         IN CollectAll(self,
                CollectCluster(self, acc, pmc_ids, cluster_id, cluster_score,
                               cluster_scores.keywords[cluster_id], keywords),
                Tail(sorted_clusters), cluster_scores, keywords, nkeywords)

\* the clusters walked in the order they were met, not sorted
SortClusters_Unsorted(cluster_scores) == cluster_scores.order

\* the sort without reverse=True: the cluster of lowest count walked first
SortClusters_Ascending(cluster_scores) ==
    Items(SortDesc([i \in 1..Len(cluster_scores.order) |->
                      [key |-> 0 - cluster_scores.count[cluster_scores.order[i]],
                       item |-> cluster_scores.order[i]]]))

\* sorted(cluster_scores.items(), key=count, reverse=True)
SortClusters(cluster_scores) ==
    Items(SortDesc([i \in 1..Len(cluster_scores.order) |->
                      [key |-> cluster_scores.count[cluster_scores.order[i]],
                       item |-> cluster_scores.order[i]]]))

\* all_candidates[:top_n] without the sort
RankCandidates_Unsorted(all_candidates, top_n) == Take(all_candidates, top_n)

\* the sort without reverse=True: lowest score first
RankCandidates_Ascending(all_candidates, top_n) ==
    LET keyed == [i \in 1..Len(all_candidates) |->
                    [key |-> 0 - all_candidates[i].relevance_score, item |-> all_candidates[i]]]
    IN Take(Items(SortDesc(keyed)), top_n)

\* all_candidates.sort(key=relevance_score, reverse=True); return all_candidates[:top_n]
RankCandidates(all_candidates, top_n) ==
    LET keyed == [i \in 1..Len(all_candidates) |->
                    [key |-> all_candidates[i].relevance_score, item |-> all_candidates[i]]]
    IN Take(Items(SortDesc(keyed)), top_n)

\* find_articles_by_keywords past the empty-query return
ArticlesFor(self, keywords0, top_n) ==
    LET keywords == Truncate(keywords0)
        normalized_keywords == NormalizeAll(keywords)
        n == Len(normalized_keywords)
        cluster_scores == ScoreKeywords(self.keyword_to_clusters, normalized_keywords,
                                        EmptyScores)
        index == DictAfterGets(self.keyword_to_clusters, normalized_keywords)
    IN IF cluster_scores.order = <<>>
       THEN Returned(<<>>, n, [self EXCEPT !.keyword_to_clusters = index])
       ELSE LET sorted_clusters == SortClusters(cluster_scores)
                acc == CollectAll(self, [all_candidates |-> <<>>, seen_pmcs |-> {}],
                                  sorted_clusters, cluster_scores, keywords, n)
            IN Returned(RankCandidates(acc.all_candidates, top_n), n,
                        [pmc_to_title |-> DictAfterGets(self.pmc_to_title,
                                                        SeqOf(acc.seen_pmcs)),
                         clusters_pmc |-> DictAfterGets(self.clusters_pmc, sorted_clusters),
                         keyword_to_clusters |-> index])

\* an empty keyword list rejected with an exception
FindArticlesByKeywords_RejectsEmpty(self, keywords0, top_n) ==
    IF keywords0 = <<>> THEN Raised("ValueError", 0, self)
    ELSE ArticlesFor(self, keywords0, top_n)

FindArticlesByKeywords(self, keywords0, top_n) ==
    IF keywords0 = <<>> THEN Returned(<<>>, 0, self)
    ELSE ArticlesFor(self, keywords0, top_n)

----------------------------------------------------------------------------
(* The corpus files the process may start with *)

PlainUnigram == [c \in ClusterIds |-> IF c = "0" THEN << <<"a">>, <<" ", "B">> >> ELSE << <<"a">> >>]
PlainBigram == [c \in ClusterIds |-> IF c = "0" THEN <<>> ELSE << <<"A", " ">> >>]
PlainClusters == [c \in ClusterIds |-> IF c = "0" THEN <<"PMC_A", "PMC_B">> ELSE <<"PMC_B">>]
PlainArticles == [p \in PmcIds |-> IF p = "PMC_A" THEN <<"A", " ", "b">> ELSE <<"b">>]

\* every shape of the keyword files, over plain article files
KeywordCorpora ==
    {[unigram |-> u, bigram |-> b, clusters |-> PlainClusters, articles |-> PlainArticles] :
        u \in [ClusterIds -> UniLists],
        b \in [ClusterIds -> BiLists]}

\* every shape of clustersPMC.json (a cluster may be missing from it)
ClusterCorpora ==
    {[unigram |-> PlainUnigram, bigram |-> PlainBigram, clusters |-> c,
      articles |-> PlainArticles] :
        c \in PartialFns(ClusterIds, BSeq(PmcIds, MaxPmcLen))}

\* every shape of articlesName_PMC.json (an article may be missing from it)
TitleCorpora ==
    {[unigram |-> PlainUnigram, bigram |-> PlainBigram, clusters |-> PlainClusters,
      articles |-> a] :
        a \in PartialFns(PmcIds, TitlePool)}

Corpora == KeywordCorpora \cup ClusterCorpora \cup TitleCorpora

\* queries of more than 5 keywords: they differ in their 5th and 6th keyword
LongQueries ==
    {[i \in 1..(MaxKeywords + 1) |-> IF i < MaxKeywords THEN <<"A", " ">> ELSE t[i - MaxKeywords + 1]] :
        t \in [1..2 -> QueryPool]}

Queries == BSeq(QueryPool, MaxQueryLen) \cup LongQueries
TopNs == 0..MaxTopN

NoCall == [op |-> "none", keywords |-> <<>>, top_n |-> 0]
NoService == [op |-> "none", answer |-> <<>>, keywords |-> <<>>, items |-> <<>>]

\* the resources as deployed: every file is there and well formed
AllOk == [n \in FileNames |-> "ok"]

\* what may be wrong with a resource; only the article and the cluster file
\* have a top-level key to lack
Faults(n) ==
    {"missing", "unreadable", "malformed", "not_object"}
        \cup (IF n \in {"articles", "clusters"} THEN {"no_key"} ELSE {})

\* one resource at fault
BrokenStatuses == UNION {{[AllOk EXCEPT ![n] = st] : st \in Faults(n)} : n \in FileNames}

PlainFiles ==
    [unigram |-> PlainUnigram, bigram |-> PlainBigram, clusters |-> PlainClusters,
     articles |-> PlainArticles]

\* the plain corpus, with nothing to be found in a resource at fault
FilesOf(status) == [n \in FileNames |-> IF status[n] = "ok" THEN PlainFiles[n] ELSE EmptyDict]

Threads == {"t1", "t2"}
IdleThread == [pc |-> "idle"]
NoObject == [made |-> 0, id |-> 0]

----------------------------------------------------------------------------
(* The process *)

\* the process after the modules are imported: nothing is loaded, no call made
FreshGlobals ==
    /\ hashOrder \in Orders(ClusterIds)
    /\ cluster_recommender_instance = None
    /\ recommender_instance = None
    /\ heap = [clusters |-> NoObject, articles |-> NoObject]
    /\ pc = "idle"
    /\ call = NoCall
    /\ results = <<>>
    /\ raised = "none"
    /\ lookups = 0
    /\ previous = <<>>
    /\ threads = [t \in Threads |-> IdleThread]
    /\ service = NoService

\* the same, in a process whose keywords.json holds the one term "a"
Fresh ==
    /\ FreshGlobals
    /\ vocabulary = {<<"a">>}
    /\ vocabOrder = << <<"a">> >>

Init ==
    /\ \/ files \in Corpora /\ fileStatus = AllOk
       \/ fileStatus \in BrokenStatuses /\ files = FilesOf(fileStatus)
    /\ Fresh

\* the heap once one more object of the class is made and the global refers to it
Made(h, class) == [h EXCEPT ![class] = [made |-> @.made + 1, id |-> @.made + 1]]

\* get_cluster_recommender(): builds the singleton on first use; an exception
\* of the constructor leaves the global unset and ends the call that asked
GetClusterRecommender ==
    /\ pc = "idle"
    /\ cluster_recommender_instance = None
    /\ \E c \in {ConstructClusterRecommender(files, fileStatus)} :
          IF c.raised = "none"
          THEN /\ cluster_recommender_instance' = c.obj
               /\ heap' = Made(heap, "clusters")
               /\ UNCHANGED <<pc, call, raised>>
          ELSE /\ pc' = "failed"
               /\ call' = [op |-> "clusters", keywords |-> <<>>, top_n |-> 0]
               /\ raised' = c.raised
               /\ UNCHANGED <<cluster_recommender_instance, heap>>
    /\ UNCHANGED <<static, recommender_instance, results, lookups, previous, threads, service>>

\* get_recommender(): builds the singleton on first use; an exception of the
\* constructor leaves the global unset and ends the call that asked
GetRecommender ==
    /\ pc = "idle"
    /\ recommender_instance = None
    /\ \E c \in {ConstructArticleRecommender(files, fileStatus)} :
          IF c.raised = "none"
          THEN /\ recommender_instance' = c.obj
               /\ heap' = Made(heap, "articles")
               /\ UNCHANGED <<pc, call, raised>>
          ELSE /\ pc' = "failed"
               /\ call' = [op |-> "articles", keywords |-> <<>>, top_n |-> 0]
               /\ raised' = c.raised
               /\ UNCHANGED <<recommender_instance, heap>>
    /\ UNCHANGED <<static, cluster_recommender_instance, results, lookups, previous, threads, service>>

\* recommend_cluster_by_keywords(keywords, limit), once the singleton exists:
\* recommender.find_best_cluster(keywords, top_n=limit)
RecommendClusterByKeywords(keywords, limit) ==
    /\ pc = "idle"
    /\ cluster_recommender_instance # None
    /\ \E r \in {FindBestCluster(cluster_recommender_instance[1], keywords, limit)} :
          /\ results' = r.value
          /\ raised' = r.raised
          /\ lookups' = r.lookups
          /\ cluster_recommender_instance' = <<r.self>>
    /\ call' = [op |-> "clusters", keywords |-> keywords, top_n |-> limit]
    /\ pc' = "returned"
    /\ UNCHANGED <<static, recommender_instance, heap, previous, threads, service>>

\* recommend_articles_by_keywords(keywords, limit), once the singleton exists:
\* recommender.find_articles_by_keywords(keywords, top_n=limit)
RecommendArticlesByKeywords(keywords, limit) ==
    /\ pc = "idle"
    /\ recommender_instance # None
    /\ \E r \in {FindArticlesByKeywords(recommender_instance[1], keywords, limit)} :
          /\ results' = r.value
          /\ raised' = r.raised
          /\ lookups' = r.lookups
          /\ recommender_instance' = <<r.self>>
    /\ call' = [op |-> "articles", keywords |-> keywords, top_n |-> limit]
    /\ pc' = "returned"
    /\ UNCHANGED <<static, cluster_recommender_instance, heap, previous, threads, service>>

\* the caller takes the result, or the exception; the process is ready for the
\* next call
Return ==
    /\ pc # "idle"
    /\ pc' = "idle"
    /\ call' = NoCall
    /\ results' = <<>>
    /\ raised' = "none"
    /\ lookups' = 0
    /\ previous' = <<>>
    /\ service' = NoService
    /\ UNCHANGED <<static, cluster_recommender_instance, recommender_instance, heap, threads>>

Next ==
    \/ GetClusterRecommender
    \/ GetRecommender
    \/ \E keywords \in Queries, limit \in TopNs : RecommendClusterByKeywords(keywords, limit)
    \/ \E keywords \in Queries, limit \in TopNs : RecommendArticlesByKeywords(keywords, limit)
    \/ Return

Spec == Init /\ [][Next]_vars

\* a process that serves cluster recommendations only (ThemesRecommender)
NextClusters ==
    \/ GetClusterRecommender
    \/ \E keywords \in Queries, limit \in TopNs : RecommendClusterByKeywords(keywords, limit)
    \/ Return

SpecClusters == Init /\ [][NextClusters]_vars

\* a process that serves article recommendations only (KeywordExtractor)
NextArticles ==
    \/ GetRecommender
    \/ \E keywords \in Queries, limit \in TopNs : RecommendArticlesByKeywords(keywords, limit)
    \/ Return

SpecArticles == Init /\ [][NextArticles]_vars

\* the corpus of the documented example: cluster "23" has the three keywords
\* "a", "b" and "a b", and lists PMC_A, whose title holds the three of them
ScenarioQueryPool == { <<"A", " ">>, <<"b">>, <<"a", " ", "b">> }
ScenarioTitlePool == { <<"c">>, <<"b", " ", "A">>, <<"b">> }
ScenarioLists ==
    { [c \in ClusterIds |-> IF c = "23" THEN <<"PMC_B", "PMC_A">> ELSE <<"PMC_A">>],
      [c \in ClusterIds |-> IF c = "23" THEN <<"PMC_A">> ELSE <<"PMC_B">>] }

ScenarioCorpora ==
    {[unigram |-> [c \in ClusterIds |-> IF c = "23" THEN << <<"a">>, <<" ", "B">> >> ELSE u],
      bigram |-> [c \in ClusterIds |-> IF c = "23" THEN << <<"A", " ", "b">> >> ELSE <<>>],
      clusters |-> l,
      articles |-> [p \in PmcIds |-> IF p = "PMC_A" THEN <<"A", " ", "b">> ELSE t]] :
        u \in UniLists, l \in ScenarioLists, t \in ScenarioTitlePool}

ScenarioQueries == BSeq(ScenarioQueryPool, MaxQueryLen) \cup LongQueries

InitScenario ==
    /\ files \in ScenarioCorpora
    /\ fileStatus = AllOk
    /\ Fresh

NextScenario ==
    \/ GetClusterRecommender
    \/ GetRecommender
    \/ \E keywords \in ScenarioQueries, limit \in TopNs :
           RecommendClusterByKeywords(keywords, limit)
    \/ \E keywords \in ScenarioQueries, limit \in TopNs :
           RecommendArticlesByKeywords(keywords, limit)
    \/ Return

SpecScenario == InitScenario /\ [][NextScenario]_vars

\* a process on the plain corpus, or on it with one resource at fault
InitLoad ==
    /\ fileStatus \in BrokenStatuses \cup {AllOk}
    /\ files = FilesOf(fileStatus)
    /\ Fresh

SpecLoad == InitLoad /\ [][Next]_vars

\* the caller makes the call it has just made once more, with the same
\* keywords and limit, and keeps the first list to compare
RepeatCall ==
    /\ pc = "returned"
    /\ previous' = results
    /\ IF call.op = "clusters"
       THEN \E r \in {FindBestCluster(cluster_recommender_instance[1], call.keywords,
                                      call.top_n)} :
               /\ results' = r.value
               /\ raised' = r.raised
               /\ lookups' = r.lookups
               /\ cluster_recommender_instance' = <<r.self>>
               /\ UNCHANGED recommender_instance
       ELSE \E r \in {FindArticlesByKeywords(recommender_instance[1], call.keywords,
                                             call.top_n)} :
               /\ results' = r.value
               /\ raised' = r.raised
               /\ lookups' = r.lookups
               /\ recommender_instance' = <<r.self>>
               /\ UNCHANGED cluster_recommender_instance
    /\ pc' = "repeated"
    /\ UNCHANGED <<static, heap, call, threads, service>>

\* a process whose corpus differs from the plain one in its titles only
InitTitles == Init /\ files \in TitleCorpora

NextRepeat == Next \/ RepeatCall

SpecRepeat == InitTitles /\ [][NextRepeat]_vars

\* a corpus of five distinct keywords: each cluster holds the first few of
\* them and lists one article, whose title holds none, two or all of them
FiveKeywords == << <<"a">>, <<"b">>, <<"c">>, <<"d">>, <<"e">> >>
FirstKeywords(n) == SubSeq(FiveKeywords, 1, n)
FiveTitlePool == { <<"x">>, <<"a", "b">>, <<"a", "b", "c", "d", "e">> }

FiveCorpora ==
    {[unigram |-> [c \in ClusterIds |-> FirstKeywords(IF c = "0" THEN k0 ELSE k23)],
      bigram |-> [c \in ClusterIds |-> <<>>],
      clusters |-> [c \in ClusterIds |-> IF c = "0" THEN <<"PMC_A">> ELSE <<"PMC_B">>],
      articles |-> [p \in PmcIds |-> IF p = "PMC_A" THEN ta ELSE tb]] :
        k0 \in 0..MaxKeywords, k23 \in 0..MaxKeywords,
        ta \in FiveTitlePool, tb \in FiveTitlePool}

\* queries of 1 to 5 distinct keywords
FiveQueries == {FirstKeywords(n) : n \in 1..MaxKeywords}

InitFive ==
    /\ files \in FiveCorpora
    /\ fileStatus = AllOk
    /\ Fresh

NextFive ==
    \/ GetRecommender
    \/ \E keywords \in FiveQueries, limit \in TopNs :
           RecommendArticlesByKeywords(keywords, limit)
    \/ Return

SpecFive == InitFive /\ [][NextFive]_vars

----------------------------------------------------------------------------
(* KeywordExtractor.extract and ThemesRecommender.recommend: the answer of  *)
(* the language model is parsed into keywords, the keywords are validated   *)
(* against the vocabulary, and the ranker is called with the first 5.       *)

MaxRawKeywords == 2     \* keywords in one answer of the language model

(* Program constants: validated[:5] and limit=5 *)
ServiceMaxKeywords == 5
ServiceLimit == 5

\* {v.lower() for v in self.vocabulary}
VocabularyLower(V) == {Lower(v) : v \in V}

\* s.split(sep) for a one-character sep; cur is the piece being read
RECURSIVE SplitFrom(_, _, _)
SplitFrom(s, sep, cur) ==
    IF s = <<>> THEN <<cur>>
    ELSE IF Head(s) = sep THEN <<cur>> \o SplitFrom(Tail(s), sep, <<>>)
    ELSE SplitFrom(Tail(s), sep, Append(cur, Head(s)))

Split(s, sep) == SplitFrom(s, sep, <<>>)

\* json.loads on text with no backslash, digit or literal: the value is a list
\* of strings, or the try block is left through its except (the text is not
\* JSON, or an element is a list and has no strip())
NotStrings == [ok |-> FALSE, value |-> <<>>]

\* a JSON string after its opening quote: its characters, and what follows it
RECURSIVE ReadString(_, _)
ReadString(s, cur) ==
    IF s = <<>> THEN [ok |-> FALSE, str |-> <<>>, rest |-> <<>>]
    ELSE IF Head(s) = "\"" THEN [ok |-> TRUE, str |-> cur, rest |-> Tail(s)]
    ELSE ReadString(Tail(s), Append(cur, Head(s)))

\* the elements of a JSON array after "[" or ",": a string, then "," or the
\* "]" that ends the text
RECURSIVE ReadElements(_, _)
ReadElements(s, acc) ==
    LET t == LStrip(s)
    IN IF t = <<>> \/ Head(t) # "\"" THEN NotStrings
       ELSE LET r == ReadString(Tail(t), <<>>)
                u == LStrip(r.rest)
            IN IF ~r.ok \/ u = <<>> THEN NotStrings
               ELSE IF Head(u) = "," THEN ReadElements(Tail(u), Append(acc, r.str))
               ELSE IF Head(u) = "]" /\ Tail(u) = <<>>
                    THEN [ok |-> TRUE, value |-> Append(acc, r.str)]
               ELSE NotStrings

\* json.loads(content) for a content that starts with "[" and ends with "]"
JsonStrings(content) ==
    IF LStrip(Tail(content)) = <<"]">> THEN [ok |-> TRUE, value |-> <<>>]
    ELSE ReadElements(Tail(content), <<>>)

\* [k.strip().lower() for k in ...]
StripLowerAll(ks) == [i \in 1..Len(ks) |-> Lower(Strip(ks[i]))]

\* raw_keywords, for a content that is not empty
RawKeywords(content) ==
    IF Head(content) = "[" /\ content[Len(content)] = "]"
    THEN LET parsed == JsonStrings(content)
         IN IF parsed.ok THEN StripLowerAll(parsed.value)
            ELSE StripLowerAll(Split(content, ","))
    ELSE StripLowerAll(Split(content, ","))

\* matches = [v for v in self.vocabulary_lower if keyword in v or v in keyword]
Matches(order, keyword) ==
    SelectSeq(order, LAMBDA v : Contains(v, keyword) \/ Contains(keyword, v))

\* the first match taken whether or not it was taken before
FirstMatchIsNew_Unchecked(matches, seen) == matches # <<>>

\* if matches and matches[0] not in seen
FirstMatchIsNew(matches, seen) == matches # <<>> /\ matches[1] \notin seen

\* validated.append(term); seen.add(term)
Accept(acc, term) ==
    [validated |-> Append(acc.validated, term), seen |-> acc.seen \cup {term}]

\* body of `for keyword in raw_keywords`; acc is [validated, seen]
ValidateKeyword(acc, order, keyword) ==
    IF keyword \in acc.seen THEN acc
    ELSE IF keyword \in Range(order) THEN Accept(acc, keyword)
    ELSE LET matches == Matches(order, keyword)
         IN IF FirstMatchIsNew(matches, acc.seen) THEN Accept(acc, matches[1]) ELSE acc

RECURSIVE ValidateAll(_, _, _)
ValidateAll(acc, order, raw_keywords) ==
    IF raw_keywords = <<>> THEN acc
    ELSE ValidateAll(ValidateKeyword(acc, order, Head(raw_keywords)), order,
                     Tail(raw_keywords))

\* validated, for the raw keywords of a content
Validated(order, content) ==
    ValidateAll([validated |-> <<>>, seen |-> {}], order, RawKeywords(content)).validated

\* final_keywords / input_keywords: validated[:5]; none for an empty content
FinalKeywords(order, answer) ==
    LET content == Strip(answer)
    IN IF content = <<>> THEN <<>>
       ELSE Take(Validated(order, content), ServiceMaxKeywords)

\* the fields of an article that extract hands on
ArticleItems(articles) ==
    [i \in 1..Len(articles) |->
        [pmc_id |-> articles[i].pmc_id,
         cluster_id |-> articles[i].cluster_id,
         title |-> articles[i].title,
         relevance_score |-> articles[i].relevance_score]]

\* KeywordExtractor.extract(text), from the answer of the language model on:
\* the keywords, and recommend_articles_by_keywords(final_keywords, limit=5)
\* when there is one
ExtractKeywords(answer) ==
    /\ pc = "idle"
    /\ \E final \in {FinalKeywords(vocabOrder, answer)} :
          IF final = <<>>
          THEN /\ service' = [op |-> "extract", answer |-> answer, keywords |-> <<>>,
                              items |-> <<>>]
               /\ pc' = "replied"
               /\ UNCHANGED <<recommender_instance, heap, call, results, raised, lookups>>
          ELSE \E c \in {IF recommender_instance = None
                         THEN ConstructArticleRecommender(files, fileStatus)
                         ELSE [raised |-> "none", obj |-> recommender_instance]} :
                  /\ call' = [op |-> "articles", keywords |-> final, top_n |-> ServiceLimit]
                  /\ IF c.raised # "none"
                     THEN /\ pc' = "failed"
                          /\ raised' = c.raised
                          /\ UNCHANGED <<recommender_instance, heap, results, lookups,
                                         service>>
                     ELSE \E r \in {FindArticlesByKeywords(c.obj[1], final, ServiceLimit)} :
                             /\ results' = r.value
                             /\ raised' = r.raised
                             /\ lookups' = r.lookups
                             /\ recommender_instance' = <<r.self>>
                             /\ heap' = IF recommender_instance = None
                                        THEN Made(heap, "articles") ELSE heap
                             /\ service' = [op |-> "extract", answer |-> answer,
                                            keywords |-> final,
                                            items |-> ArticleItems(r.value)]
                             /\ pc' = "replied"
    /\ UNCHANGED <<static, cluster_recommender_instance, previous, threads>>

\* ThemesRecommender.recommend(text), from the answer of the language model
\* on: the keywords, and recommend_cluster_by_keywords(input_keywords, limit=5)
\* when there is one
RecommendThemes(answer) ==
    /\ pc = "idle"
    /\ \E final \in {FinalKeywords(vocabOrder, answer)} :
          IF final = <<>>
          THEN /\ service' = [op |-> "recommend", answer |-> answer, keywords |-> <<>>,
                              items |-> <<>>]
               /\ pc' = "replied"
               /\ UNCHANGED <<cluster_recommender_instance, heap, call, results, raised,
                              lookups>>
          ELSE \E c \in {IF cluster_recommender_instance = None
                         THEN ConstructClusterRecommender(files, fileStatus)
                         ELSE [raised |-> "none", obj |-> cluster_recommender_instance]} :
                  /\ call' = [op |-> "clusters", keywords |-> final, top_n |-> ServiceLimit]
                  /\ IF c.raised # "none"
                     THEN /\ pc' = "failed"
                          /\ raised' = c.raised
                          /\ UNCHANGED <<cluster_recommender_instance, heap, results, lookups,
                                         service>>
                     ELSE \E r \in {FindBestCluster(c.obj[1], final, ServiceLimit)} :
                             /\ results' = r.value
                             /\ raised' = r.raised
                             /\ lookups' = r.lookups
                             /\ cluster_recommender_instance' = <<r.self>>
                             /\ heap' = IF cluster_recommender_instance = None
                                        THEN Made(heap, "clusters") ELSE heap
                             /\ service' = [op |-> "recommend", answer |-> answer,
                                            keywords |-> final, items |-> r.value]
                             /\ pc' = "replied"
    /\ UNCHANGED <<static, recommender_instance, previous, threads>>

\* the keywords.json files a process may start with: with no term, with two
\* terms of one lowercase form, with terms that are parts of one another,
\* and with more than 5 terms
SixTerms == << <<"a">>, <<"b">>, <<"a", "b">>, <<"b", "a">>, <<"a", "a">>, <<"b", "b">> >>
Vocabularies ==
    { {},
      {<<"A">>, <<"a">>},
      {<<"a", "b">>, <<"b">>},
      {<<"a">>, <<"B">>, <<"a", "b">>},
      Range(SixTerms) }

\* the six terms from the k-th on, then those before it
Rotation(k) == SubSeq(SixTerms, k, Len(SixTerms)) \o SubSeq(SixTerms, 1, k - 1)

\* the orders in which a process may iterate vocabulary_lower: every order of
\* up to 3 terms; of the six terms, those that differ in the term met first
VocabOrders(V) ==
    IF Cardinality(VocabularyLower(V)) <= 3 THEN Orders(VocabularyLower(V))
    ELSE {Rotation(k) : k \in 1..Len(SixTerms)}

\* what the language model may answer: up to MaxRawKeywords pieces, separated
\* by commas, as a JSON list of strings, or in brackets without quotes; and
\* answers of 6 and 8 pieces
RECURSIVE Join(_, _)
Join(pieces, sep) ==
    IF pieces = <<>> THEN <<>>
    ELSE IF Len(pieces) = 1 THEN pieces[1]
    ELSE pieces[1] \o sep \o Join(Tail(pieces), sep)

Quoted(pieces) == [i \in 1..Len(pieces) |-> <<"\"">> \o pieces[i] \o <<"\"">>]

PiecePool == { <<"a">>, <<" ", "B">>, <<"a", "b", "b">>, <<>> }
ShortAnswers ==
    UNION {{Join(p, <<",">>),
            <<"[">> \o Join(Quoted(p), <<",">>) \o <<"]">>,
            <<"[">> \o Join(p, <<",">>) \o <<"]">>} : p \in BSeq(PiecePool, MaxRawKeywords)}
LongAnswers ==
    { Join(SixTerms, <<",", " ">>),
      <<"[">> \o Join(Quoted(<<SixTerms[6], SixTerms[6], <<"a", "b", "b">> >>
                                  \o SubSeq(SixTerms, 1, 5)), <<",">>) \o <<"]">> }
Answers == ShortAnswers \cup LongAnswers

InitServices ==
    /\ files = PlainFiles
    /\ fileStatus = AllOk
    /\ vocabulary \in Vocabularies
    /\ vocabOrder \in VocabOrders(vocabulary)
    /\ FreshGlobals

NextServices ==
    \/ \E answer \in Answers : ExtractKeywords(answer)
    \/ \E answer \in Answers : RecommendThemes(answer)
    \/ Return

SpecServices == InitServices /\ [][NextServices]_vars

----------------------------------------------------------------------------
(* Worker threads calling recommend_cluster_by_keywords and                 *)
(* recommend_articles_by_keywords: a thread may be switched out between any *)
(* two accesses to the globals and to the recommender object.               *)

ThreadQueries == { <<>>, << <<"A", " ">> >>, << <<"b">>, <<"A", " ">> >> }
ThreadTopNs == {1, 2}
Classes == {"clusters", "articles"}

\* the global of the class: _cluster_recommender_instance or _recommender_instance
Global(class) ==
    IF class = "clusters" THEN cluster_recommender_instance ELSE recommender_instance

\* every thread's dedup set taken for one set that the calls share
SeenPmcs_Shared(th, t) ==
    UNION {th[u].acc.seen_pmcs : u \in {v \in Threads : th[v].pc = "collect"}}

\* seen_pmcs of the call that thread t runs: a local of find_articles_by_keywords
SeenPmcs(th, t) == th[t].acc.seen_pmcs

\* the thread ends its call with a list
Done(th, t, value) ==
    [th EXCEPT ![t] = [pc |-> "done", op |-> th[t].op, keywords |-> th[t].keywords,
                       top_n |-> th[t].top_n, recommender |-> th[t].recommender,
                       result |-> value]]

\* a thread enters recommend_cluster_by_keywords or recommend_articles_by_keywords
ThreadCall(t, class, keywords, limit) ==
    /\ threads[t].pc = "idle"
    /\ threads' = [threads EXCEPT ![t] = [pc |-> "check", op |-> class,
                                          keywords |-> keywords, top_n |-> limit]]
    /\ UNCHANGED <<static, cluster_recommender_instance, recommender_instance, heap, pc, call,
                   results, raised, lookups, previous, service>>

\* if _instance is None:
ThreadCheck(t) ==
    /\ threads[t].pc = "check"
    /\ threads' = [threads EXCEPT ![t].pc =
                      IF Global(threads[t].op) = None THEN "construct" ELSE "load_global"]
    /\ UNCHANGED <<static, cluster_recommender_instance, recommender_instance, heap, pc, call,
                   results, raised, lookups, previous, service>>

\* ClusterRecommender() / ArticleRecommender(): the right-hand side of the assignment
ThreadConstruct(t) ==
    /\ threads[t].pc = "construct"
    /\ \E c \in {IF threads[t].op = "clusters"
                 THEN ConstructClusterRecommender(files, fileStatus)
                 ELSE ConstructArticleRecommender(files, fileStatus)} :
          IF c.raised = "none"
          THEN /\ heap' = [heap EXCEPT ![threads[t].op].made = @ + 1]
               /\ threads' = [threads EXCEPT ![t] =
                                 [pc |-> "assign", op |-> threads[t].op,
                                  keywords |-> threads[t].keywords,
                                  top_n |-> threads[t].top_n,
                                  new |-> c.obj,
                                  new_id |-> heap[threads[t].op].made + 1]]
          ELSE /\ threads' = [threads EXCEPT ![t] =
                                 [pc |-> "raised", op |-> threads[t].op,
                                  keywords |-> threads[t].keywords,
                                  top_n |-> threads[t].top_n,
                                  raised |-> c.raised]]
               /\ UNCHANGED heap
    /\ UNCHANGED <<static, cluster_recommender_instance, recommender_instance, pc, call,
                   results, raised, lookups, previous, service>>

\* _instance = <the new object>
ThreadAssign(t) ==
    /\ threads[t].pc = "assign"
    /\ IF threads[t].op = "clusters"
       THEN /\ cluster_recommender_instance' = threads[t].new
            /\ UNCHANGED recommender_instance
       ELSE /\ recommender_instance' = threads[t].new
            /\ UNCHANGED cluster_recommender_instance
    /\ heap' = [heap EXCEPT ![threads[t].op].id = threads[t].new_id]
    /\ threads' = [threads EXCEPT ![t] = [pc |-> "load_global", op |-> threads[t].op,
                                          keywords |-> threads[t].keywords,
                                          top_n |-> threads[t].top_n]]
    /\ UNCHANGED <<static, pc, call, results, raised, lookups, previous, service>>

\* return _instance; then the head of find_best_cluster / find_articles_by_keywords:
\* the empty-query return, the cut to 5 keywords, the normalization, the locals
ThreadBegin(t) ==
    /\ threads[t].pc = "load_global"
    /\ LET me == [threads EXCEPT ![t] = [pc |-> "rank", op |-> threads[t].op,
                                         keywords |-> threads[t].keywords,
                                         top_n |-> threads[t].top_n,
                                         recommender |-> heap[threads[t].op].id]]
       IN IF threads[t].keywords = <<>>
          THEN threads' = Done(me, t, <<>>)
          ELSE threads' = [me EXCEPT ![t] =
                              [pc |-> "score", op |-> me[t].op, keywords |-> me[t].keywords,
                               top_n |-> me[t].top_n, recommender |-> me[t].recommender,
                               raw |-> Truncate(me[t].keywords),
                               todo |-> NormalizeAll(Truncate(me[t].keywords)),
                               cluster_scores |-> EmptyScores]]
    /\ UNCHANGED <<static, cluster_recommender_instance, recommender_instance, heap, pc, call,
                   results, raised, lookups, previous, service>>

\* one turn of `for keyword in normalized_keywords`
ThreadScore(t) ==
    /\ threads[t].pc = "score"
    /\ threads[t].todo # <<>>
    /\ LET self == Global(threads[t].op)[1]
           keyword == Head(threads[t].todo)
           index == DictAfterGet(self.keyword_to_clusters, keyword)
       IN /\ threads' = [threads EXCEPT
                            ![t].cluster_scores =
                                ScoreKeywords(self.keyword_to_clusters, <<keyword>>, @),
                            ![t].todo = Tail(@)]
          /\ IF threads[t].op = "clusters"
             THEN /\ cluster_recommender_instance' =
                         <<[self EXCEPT !.keyword_to_clusters = index]>>
                  /\ UNCHANGED recommender_instance
             ELSE /\ recommender_instance' = <<[self EXCEPT !.keyword_to_clusters = index]>>
                  /\ UNCHANGED cluster_recommender_instance
    /\ UNCHANGED <<static, heap, pc, call, results, raised, lookups, previous, service>>

\* after the loop over the keywords: the return on no match; for clusters the
\* results, their sort and the cut; for articles the sort of the clusters
ThreadRank(t) ==
    /\ threads[t].pc = "score"
    /\ threads[t].todo = <<>>
    /\ LET self == Global(threads[t].op)[1]
           cluster_scores == threads[t].cluster_scores
           n == Len(threads[t].raw)
       IN IF cluster_scores.order = <<>>
          THEN /\ threads' = Done(threads, t, <<>>)
               /\ UNCHANGED <<cluster_recommender_instance, recommender_instance>>
          ELSE IF threads[t].op = "clusters"
          THEN /\ threads' = Done(threads, t,
                      RankResults([i \in 1..Len(cluster_scores.order) |->
                                      ClusterResult(self, cluster_scores,
                                                    cluster_scores.order[i], n)],
                                  threads[t].top_n))
               /\ cluster_recommender_instance' =
                      <<[self EXCEPT !.cluster_keywords =
                             DictAfterGets(@, cluster_scores.order)]>>
               /\ UNCHANGED recommender_instance
          ELSE /\ threads' = [threads EXCEPT ![t] =
                                 [pc |-> "collect", op |-> threads[t].op,
                                  keywords |-> threads[t].keywords,
                                  top_n |-> threads[t].top_n,
                                  recommender |-> threads[t].recommender,
                                  raw |-> threads[t].raw,
                                  cluster_scores |-> cluster_scores,
                                  todo |-> SortClusters(cluster_scores),
                                  acc |-> [all_candidates |-> <<>>, seen_pmcs |-> {}]]]
               /\ UNCHANGED <<cluster_recommender_instance, recommender_instance>>
    /\ UNCHANGED <<static, heap, pc, call, results, raised, lookups, previous, service>>

\* one turn of `for cluster_id, score_info in sorted_clusters`
ThreadCollect(t) ==
    /\ threads[t].pc = "collect"
    /\ threads[t].todo # <<>>
    /\ LET self == recommender_instance[1]
           cluster_id == Head(threads[t].todo)
           acc == CollectAll(self,
                             [all_candidates |-> threads[t].acc.all_candidates,
                              seen_pmcs |-> SeenPmcs(threads, t)],
                             <<cluster_id>>, threads[t].cluster_scores, threads[t].raw,
                             Len(threads[t].raw))
       IN /\ threads' = [threads EXCEPT ![t].acc = acc, ![t].todo = Tail(@)]
          /\ recommender_instance' =
                 <<[self EXCEPT
                       !.clusters_pmc = DictAfterGet(@, cluster_id),
                       !.pmc_to_title =
                           DictAfterGets(@, SeqOf(acc.seen_pmcs \ SeenPmcs(threads, t)))]>>
    /\ UNCHANGED <<static, cluster_recommender_instance, heap, pc, call, results, raised,
                   lookups, previous, service>>

\* all_candidates.sort(...); return all_candidates[:top_n]
ThreadFinish(t) ==
    /\ threads[t].pc = "collect"
    /\ threads[t].todo = <<>>
    /\ threads' = Done(threads, t,
                       RankCandidates(threads[t].acc.all_candidates, threads[t].top_n))
    /\ UNCHANGED <<static, cluster_recommender_instance, recommender_instance, heap, pc, call,
                   results, raised, lookups, previous, service>>

\* the caller on this thread takes the list, or the exception
ThreadReturn(t) ==
    /\ threads[t].pc \in {"done", "raised"}
    /\ threads' = [threads EXCEPT ![t] = IdleThread]
    /\ UNCHANGED <<static, cluster_recommender_instance, recommender_instance, heap, pc, call,
                   results, raised, lookups, previous, service>>

NextThreads ==
    \/ \E t \in Threads, class \in Classes, keywords \in ThreadQueries, limit \in ThreadTopNs :
           ThreadCall(t, class, keywords, limit)
    \/ \E t \in Threads : ThreadCheck(t)
    \/ \E t \in Threads : ThreadConstruct(t)
    \/ \E t \in Threads : ThreadAssign(t)
    \/ \E t \in Threads : ThreadBegin(t)
    \/ \E t \in Threads : ThreadScore(t)
    \/ \E t \in Threads : ThreadRank(t)
    \/ \E t \in Threads : ThreadCollect(t)
    \/ \E t \in Threads : ThreadFinish(t)
    \/ \E t \in Threads : ThreadReturn(t)

\* the plain corpus, whole or without its title file
InitThreads ==
    /\ InitLoad
    /\ \A n \in FileNames : fileStatus[n] = "ok" \/ (n = "articles" /\ fileStatus[n] = "missing")

SpecThreads == InitThreads /\ [][NextThreads]_vars

----------------------------------------------------------------------------
(* What the corpus and the last call say, read off the files and the call *)

Abs(x) == IF x < 0 THEN -x ELSE x

\* the merged unigram+bigram keyword set of a cluster
KeywordSetOf(c) ==
    {Normalize(k) : k \in Range(Get(files.unigram, c, <<>>)) \cup Range(Get(files.bigram, c, <<>>))}

ProbeKeywords == {Normalize(k) : k \in QueryPool}

IndexMatchesCorpus(index) ==
    \A K \in DOMAIN index \cup ProbeKeywords :
        Get(index, K, {}) = {c \in ClusterIds : K \in KeywordSetOf(c)}

\* the keywords of the last call that are scored: its first 5
QueryUsed == SubSeq(call.keywords, 1, Min(Len(call.keywords), MaxKeywords))
QueryLen == Len(QueryUsed)

MatchCount(c) == Cardinality({i \in 1..QueryLen : Normalize(QueryUsed[i]) \in KeywordSetOf(c)})
MatchingClusters == {c \in ClusterIds : MatchCount(c) > 0}

ListOf(c) == Get(files.clusters, c, <<>>)
TitleIn(p) == Get(files.articles, p, <<>>)
TitleHits(title) ==
    Cardinality({i \in 1..QueryLen : Contains(Lower(title), Lower(QueryUsed[i]))})

ClustersOf(p) == {c \in MatchingClusters : p \in Range(ListOf(c))}
TitledCandidates == {p \in PmcIds : ClustersOf(p) # {} /\ TitleIn(p) # <<>>}
ReturnedIds == {results[i].pmc_id : i \in DOMAIN results}
ReturnedClusters == {results[i].cluster_id : i \in DOMAIN results}

\* s is n/d rounded to 4 decimal places, in units of 0.0001
IsRounded(s, n, d) == 2 * Abs(s * d - Scale * n) <= d
Nearest(n, d) == (2 * Scale * n + d) \div (2 * d)

\* cluster_score * (0.8 + 0.2 * title_boost) = count * (8 * L + 2 * hits) / (10 * L * L)
ScoreNum(count, hits) == count * (8 * QueryLen + 2 * hits)
ScoreDen == 10 * QueryLen * QueryLen

BestCount(p) == CHOOSE n \in {MatchCount(c) : c \in ClustersOf(p)} :
                    \A c \in ClustersOf(p) : MatchCount(c) <= n
CandidateScore(p) == Nearest(ScoreNum(BestCount(p), TitleHits(TitleIn(p))), ScoreDen)

\* position of a cluster in the walk over the matching clusters: higher count
\* first, then the cluster met first while the query keywords are looked up
FirstHit(c) == CHOOSE i \in 1..QueryLen :
                   /\ Normalize(QueryUsed[i]) \in KeywordSetOf(c)
                   /\ \A j \in 1..(i - 1) : Normalize(QueryUsed[j]) \notin KeywordSetOf(c)
HashPos(c) == CHOOSE i \in DOMAIN hashOrder : hashOrder[i] = c
WalkedBefore(c, d) ==
    \/ MatchCount(c) > MatchCount(d)
    \/ /\ MatchCount(c) = MatchCount(d)
       /\ \/ FirstHit(c) < FirstHit(d)
          \/ FirstHit(c) = FirstHit(d) /\ HashPos(c) < HashPos(d)

ClusterCall == pc = "returned" /\ call.op = "clusters"

\* the cluster holds every keyword of the query
FullMatch(c) == QueryLen > 0 /\ MatchCount(c) = QueryLen
NormalizedQuery == {Normalize(QueryUsed[i]) : i \in 1..QueryLen}
RawInTitle(title, k) == Contains(Lower(title), Lower(QueryUsed[k]))
ArticleCall == pc = "returned" /\ call.op = "articles"

----------------------------------------------------------------------------
(* C1: after load, a cluster is in the index entry of a normalized keyword   *)
(* exactly when the keyword is in the cluster's merged unigram+bigram set,   *)
(* and a keyword of no cluster looks up to the empty set; for the index of   *)
(* ClusterRecommender and for the index of ArticleRecommender.               *)
C1_IndexConsistent ==
    /\ cluster_recommender_instance # None =>
           IndexMatchesCorpus(cluster_recommender_instance[1].keyword_to_clusters)
    /\ recommender_instance # None =>
           IndexMatchesCorpus(recommender_instance[1].keyword_to_clusters)

\* both indices are built; "b" comes from the raw " B" and is shared by every
\* cluster, "a" is in no cluster
C1_Witness ==
    /\ cluster_recommender_instance # None
    /\ recommender_instance # None
    /\ \A c \in ClusterIds : <<" ", "B">> \in Range(files.unigram[c])
    /\ Get(cluster_recommender_instance[1].keyword_to_clusters, <<"b">>, {}) = ClusterIds
    /\ Get(recommender_instance[1].keyword_to_clusters, <<"b">>, {}) = ClusterIds
    /\ Get(cluster_recommender_instance[1].keyword_to_clusters, <<"a">>, {}) = {}
    /\ Get(recommender_instance[1].keyword_to_clusters, <<"a">>, {}) = {}

(* C2 as stated: every relevance_score of find_best_cluster, for a query of  *)
(* 1 to 5 keywords, lies in (0, 1] and equals matched-count / L exactly.      *)
C2_ScoreIsExactRatio ==
    (ClusterCall /\ Len(call.keywords) \in 1..MaxKeywords) =>
        \A i \in DOMAIN results :
            /\ 0 < results[i].relevance_score
            /\ results[i].relevance_score <= Scale
            /\ results[i].relevance_score * QueryLen = Scale * MatchCount(results[i].cluster_id)

(* C2 amended: every relevance_score of find_best_cluster, for a query of 1  *)
(* to 5 keywords, lies in (0, 1] and equals matched-count / L rounded to 4    *)
(* decimal places.                                                            *)
C2_ScoreIsRoundedRatio ==
    (ClusterCall /\ Len(call.keywords) \in 1..MaxKeywords) =>
        \A i \in DOMAIN results :
            /\ 0 < results[i].relevance_score
            /\ results[i].relevance_score <= Scale
            /\ IsRounded(results[i].relevance_score, MatchCount(results[i].cluster_id), QueryLen)

\* a cluster matching 2 of 3 keywords is returned with 0.6667
C2_Witness ==
    /\ ClusterCall
    /\ Len(call.keywords) = 3
    /\ \E i \in DOMAIN results :
           /\ MatchCount(results[i].cluster_id) = 2
           /\ results[i].relevance_score = 6667

(* C3: find_articles_by_keywords never returns the same article identifier   *)
(* twice within one call.                                                     *)
C3_NoDuplicateArticles ==
    ArticleCall =>
        \A i, j \in DOMAIN results : i # j => results[i].pmc_id # results[j].pmc_id

\* a returned article is listed twice in one matching cluster and also in a
\* second matching cluster
C3_Witness ==
    /\ ArticleCall
    /\ \E i \in DOMAIN results :
           /\ Cardinality(ClustersOf(results[i].pmc_id)) = 2
           /\ \E c \in MatchingClusters : \E m, n \in DOMAIN ListOf(c) :
                  m # n /\ ListOf(c)[m] = results[i].pmc_id /\ ListOf(c)[n] = results[i].pmc_id

(* C4: a returned article is returned exactly once, and its cluster_id is a   *)
(* matching cluster that lists it, of maximal cluster score among those, and  *)
(* the first of them in the descending-score walk.                            *)
C4_AttributedToBestCluster ==
    ArticleCall =>
        \A i \in DOMAIN results :
            /\ Cardinality({j \in DOMAIN results : results[j].pmc_id = results[i].pmc_id}) = 1
            /\ results[i].cluster_id \in ClustersOf(results[i].pmc_id)
            /\ \A c \in ClustersOf(results[i].pmc_id) :
                   /\ MatchCount(c) <= MatchCount(results[i].cluster_id)
                   /\ c # results[i].cluster_id => WalkedBefore(results[i].cluster_id, c)

\* a returned article is listed in two matching clusters of different score
C4_Witness ==
    /\ ArticleCall
    /\ \E i \in DOMAIN results : \E c \in ClustersOf(results[i].pmc_id) :
           MatchCount(c) < MatchCount(results[i].cluster_id)

(* C5: find_articles_by_keywords returns its results in non-increasing        *)
(* relevance_score order, at most top_n of them for positive top_n, and no    *)
(* titled article of a matching cluster that is left out has a strictly       *)
(* higher final score than a returned one.                                    *)
C5_ArticlesRanked ==
    ArticleCall =>
        /\ \A i, j \in DOMAIN results :
               i < j => results[i].relevance_score >= results[j].relevance_score
        /\ call.top_n > 0 => Len(results) <= call.top_n
        /\ \A p \in TitledCandidates \ ReturnedIds : \A i \in DOMAIN results :
               CandidateScore(p) <= results[i].relevance_score

\* top_n cuts the list: a titled article of lower score is left out, and it is
\* not the one that was collected last
C5_Witness ==
    /\ ArticleCall
    /\ call.top_n = 1
    /\ Len(results) = 1
    /\ \E p \in TitledCandidates \ ReturnedIds :
           /\ CandidateScore(p) < results[1].relevance_score
           /\ \E c \in ClustersOf(p) : \E m, n \in DOMAIN ListOf(c) :
                  m < n /\ ListOf(c)[m] = p /\ ListOf(c)[n] = results[1].pmc_id

(* C6: find_best_cluster returns its results in non-increasing                *)
(* relevance_score order, at most top_n of them for positive top_n, and no    *)
(* matching cluster that is left out has a strictly higher score than a       *)
(* returned one.                                                              *)
C6_ClustersRanked ==
    ClusterCall =>
        /\ \A i, j \in DOMAIN results :
               i < j => results[i].relevance_score >= results[j].relevance_score
        /\ call.top_n > 0 => Len(results) <= call.top_n
        /\ \A c \in MatchingClusters \ ReturnedClusters : \A i \in DOMAIN results :
               Nearest(MatchCount(c), QueryLen) <= results[i].relevance_score

\* top_n cuts the list: the cluster met first has the lower score and is left out
C6_Witness ==
    /\ ClusterCall
    /\ call.top_n = 1
    /\ Len(results) = 1
    /\ \E c \in MatchingClusters \ ReturnedClusters :
           /\ MatchCount(c) < MatchCount(results[1].cluster_id)
           /\ FirstHit(c) = FirstHit(results[1].cluster_id)
           /\ HashPos(c) < HashPos(results[1].cluster_id)

(* C7: every returned article has final score                                 *)
(* cluster_score * (0.8 + 0.2 * title_boost) rounded to 4 decimal places,     *)
(* with the cluster_score of the cluster it is attributed to, and the score   *)
(* lies in (0, 1.0].                                                          *)
C7_FinalScoreFormula ==
    ArticleCall =>
        \A i \in DOMAIN results :
            /\ 0 < results[i].relevance_score
            /\ results[i].relevance_score <= Scale
            /\ IsRounded(results[i].relevance_score,
                         ScoreNum(MatchCount(results[i].cluster_id), TitleHits(results[i].title)),
                         ScoreDen)

\* a score that needs rounding: 3 keywords, the cluster matches 2 of them and
\* the title holds 1 of them: 2/3 * (0.8 + 0.2/3) = 0.57777...
C7_Witness ==
    /\ ArticleCall
    /\ QueryLen = 3
    /\ \E i \in DOMAIN results :
           /\ MatchCount(results[i].cluster_id) = 2
           /\ TitleHits(results[i].title) = 1
           /\ results[i].relevance_score = 5778

(* C8: find_articles_by_keywords never returns an article whose title is      *)
(* empty or missing from the article-id to title mapping.                     *)
C8_TitledOnly ==
    ArticleCall =>
        \A i \in DOMAIN results :
            /\ results[i].pmc_id \in DOMAIN files.articles
            /\ files.articles[results[i].pmc_id] # <<>>
            /\ results[i].title = files.articles[results[i].pmc_id]

\* a matching cluster lists a titled article, which is returned, after one
\* that is missing from the mapping
C8_Witness ==
    /\ ArticleCall
    /\ \E i \in DOMAIN results : \E c \in MatchingClusters : \E m, n \in DOMAIN ListOf(c) :
           /\ m < n
           /\ ListOf(c)[m] \notin DOMAIN files.articles
           /\ ListOf(c)[n] = results[i].pmc_id

(* C9: a call of either ranker on an empty keyword list returns an empty      *)
(* list, raises no error and makes no lookup in the inverted index.           *)
C9_EmptyQuery ==
    (pc = "returned" /\ call.keywords = <<>>) =>
        /\ results = <<>>
        /\ raised = "none"
        /\ lookups = 0

\* the article ranker is called with no keyword on a corpus whose index is not
\* empty and whose clusters hold titled articles
C9_Witness ==
    /\ ArticleCall
    /\ call.keywords = <<>>
    /\ call.top_n > 0
    /\ DOMAIN recommender_instance[1].keyword_to_clusters # {}
    /\ \E c \in ClusterIds : \E p \in Range(ListOf(c)) : TitleIn(p) # <<>>

(* C10: when no normalized query keyword is in any cluster's keyword set,     *)
(* both rankers return an empty list and raise no error; and the article      *)
(* ranker returns an empty list, not an error, when clusters match but list   *)
(* no titled article.                                                         *)
C10_NoMatchIsEmpty ==
    (pc = "returned" /\ call.keywords # <<>>) =>
        /\ MatchingClusters = {} => (results = <<>> /\ raised = "none")
        /\ (call.op = "articles" /\ TitledCandidates = {}) => (results = <<>> /\ raised = "none")

\* clusters match the query and list articles, none of which has a title
C10_Witness ==
    /\ ArticleCall
    /\ call.top_n > 0
    /\ MatchingClusters # {}
    /\ \A c \in MatchingClusters : ListOf(c) # <<>>
    /\ TitledCandidates = {}

(* C11: a query of more than 5 keywords is not rejected, and either ranker     *)
(* returns for it exactly what it returns for the first 5 keywords of the      *)
(* query, with the same top_n.                                                 *)
C11_TruncatedToFive ==
    (pc = "returned" /\ Len(call.keywords) > MaxKeywords) =>
        /\ raised = "none"
        /\ call.op = "clusters" =>
               results = FindBestCluster(cluster_recommender_instance[1],
                                         SubSeq(call.keywords, 1, MaxKeywords),
                                         call.top_n).value
        /\ call.op = "articles" =>
               results = FindArticlesByKeywords(recommender_instance[1],
                                                SubSeq(call.keywords, 1, MaxKeywords),
                                                call.top_n).value

\* the 6th keyword of the query is "b", none of the first 5 is, and a cluster
\* that only "b" would match is not among the results, which are not empty
C11_Witness ==
    /\ ArticleCall
    /\ Len(call.keywords) = MaxKeywords + 1
    /\ Normalize(call.keywords[MaxKeywords + 1]) = <<"b">>
    /\ \A i \in 1..MaxKeywords : Normalize(call.keywords[i]) = <<"a">>
    /\ results # <<>>
    /\ \E c \in ClusterIds :
           /\ <<"b">> \in KeywordSetOf(c)
           /\ c \notin MatchingClusters
           /\ ListOf(c) # <<>>
           /\ c \notin ReturnedClusters

(* C12: a call of either ranker made a second time with the same query and     *)
(* top_n, on the same corpus, returns the same entries with the same scores,   *)
(* in the same order apart from entries of equal score, and raises as the      *)
(* first did.                                                                  *)
C12_Idempotent ==
    pc = "repeated" =>
        /\ raised = "none"
        /\ Len(results) = Len(previous)
        /\ Range(results) = Range(previous)
        /\ \A i \in DOMAIN results :
               results[i].relevance_score = previous[i].relevance_score

\* the repeated call returned two clusters of equal score, which the order of
\* iteration of a set of cluster ids has put in the order "23", "0"
C12_Witness ==
    /\ pc = "repeated"
    /\ call.op = "clusters"
    /\ Len(results) = 2
    /\ results[1].relevance_score = results[2].relevance_score
    /\ results[1].cluster_id = "23"
    /\ results[2].cluster_id = "0"

(* C15: once loaded, the title map, the cluster to article map, the cluster    *)
(* keyword sets and both inverted indices are never changed by any step: no    *)
(* ranking call, whatever its keywords, adds, removes or alters a key.         *)
C15_LoadedStateUnchanged ==
    [][/\ cluster_recommender_instance # None =>
             cluster_recommender_instance' = cluster_recommender_instance
       /\ recommender_instance # None =>
             recommender_instance' = recommender_instance]_vars

\* the article ranker has returned articles for a query with a keyword that
\* is in no cluster, and the object is still what the constructor built
C15_Witness ==
    /\ ArticleCall
    /\ results # <<>>
    /\ \E i \in 1..QueryLen :
           Normalize(QueryUsed[i]) \notin DOMAIN recommender_instance[1].keyword_to_clusters
    /\ recommender_instance[1] = NewArticleRecommender(files, fileStatus)

(* C13: a returned cluster that holds every normalized query keyword has        *)
(* relevance_score 1.0 and matched_keywords equal to the normalized query, no  *)
(* cluster of lower score is placed before it, and such a cluster comes first  *)
(* when there is one; when cluster "23" has 3 keywords and alone holds all of  *)
(* a 3-keyword query, top_n = 1 returns exactly that cluster with score 1.0    *)
(* and total_keywords_in_cluster 3.                                            *)
C13_FullMatchScoresOne ==
    ClusterCall =>
        /\ \A i \in DOMAIN results : FullMatch(results[i].cluster_id) =>
               /\ results[i].relevance_score = Scale
               /\ results[i].matched_keywords = NormalizedQuery
               /\ \A k \in 1..(i - 1) :
                      results[k].relevance_score >= results[i].relevance_score
        /\ ((\E c \in ClusterIds : FullMatch(c)) /\ call.top_n >= 1) =>
               (results # <<>> /\ FullMatch(results[1].cluster_id))
        /\ (/\ Cardinality(KeywordSetOf("23")) = 3
            /\ QueryLen = 3
            /\ FullMatch("23")
            /\ ~FullMatch("0")
            /\ call.top_n = 1) =>
               results = << [cluster_id |-> "23",
                             relevance_score |-> Scale,
                             matched_keywords |-> NormalizedQuery,
                             total_keywords_in_cluster |-> 3] >>

\* the documented example: the query is the three keywords of cluster "23",
\* top_n is 1, and cluster "0", which holds one of them and is met first, is
\* left out
C13_Witness ==
    /\ ClusterCall
    /\ call.top_n = 1
    /\ QueryLen = 3
    /\ Cardinality(NormalizedQuery) = 3
    /\ NormalizedQuery = KeywordSetOf("23")
    /\ MatchCount("0") = 1
    /\ FirstHit("0") = 1
    /\ hashOrder[1] = "0"
    /\ Len(results) = 1
    /\ results[1].cluster_id = "23"

(* C14: of two articles attributed to clusters of equal cluster score, the one *)
(* whose title holds more of the raw query keywords is never ranked below the  *)
(* other, nor left out while the other is returned; when cluster "23" holds    *)
(* all of a 3-keyword query and lists PMC_A, whose title holds the 3 keywords, *)
(* and PMC_B, whose title holds none, top_n = 2 returns PMC_A with score 1.0   *)
(* and then PMC_B with score 0.8.                                              *)
C14_TitleBoostOrders ==
    ArticleCall =>
        /\ \A i, j \in DOMAIN results :
               (/\ MatchCount(results[i].cluster_id) = MatchCount(results[j].cluster_id)
                /\ TitleHits(results[i].title) > TitleHits(results[j].title)) => i < j
        /\ \A p \in TitledCandidates \ ReturnedIds : \A i \in DOMAIN results :
               BestCount(p) = MatchCount(results[i].cluster_id) =>
                   TitleHits(TitleIn(p)) <= TitleHits(results[i].title)
        /\ (/\ QueryLen = 3
            /\ FullMatch("23")
            /\ {"PMC_A", "PMC_B"} \subseteq Range(ListOf("23"))
            /\ TitleHits(TitleIn("PMC_A")) = 3
            /\ TitleIn("PMC_B") # <<>>
            /\ TitleHits(TitleIn("PMC_B")) = 0
            /\ call.top_n = 2) =>
               /\ Len(results) = 2
               /\ results[1].pmc_id = "PMC_A"
               /\ results[1].relevance_score = Scale
               /\ results[2].pmc_id = "PMC_B"
               /\ results[2].relevance_score = (8 * Scale) \div 10

\* the documented example: the query is the three keywords of cluster "23",
\* which lists PMC_B before PMC_A; PMC_A is returned first
C14_Witness ==
    /\ ArticleCall
    /\ call.top_n = 2
    /\ QueryLen = 3
    /\ Cardinality(NormalizedQuery) = 3
    /\ NormalizedQuery = KeywordSetOf("23")
    /\ ListOf("23") = <<"PMC_B", "PMC_A">>
    /\ TitleHits(TitleIn("PMC_A")) = 3
    /\ TitleHits(TitleIn("PMC_B")) = 0
    /\ Len(results) = 2
    /\ results[1].pmc_id = "PMC_A"

(* C20: the title_boost in the score of a returned article is h / L, where L   *)
(* is the number of raw query keywords after truncation to 5 and h, between 0  *)
(* and L, is the number of them whose lowercased form is a substring of the    *)
(* lowercased title, whether or not the article's cluster holds them: the      *)
(* score is cluster_score * (0.8 + 0.2 * h / L) rounded for that h and for no  *)
(* other.                                                                      *)
C20_TitleBoost ==
    ArticleCall =>
        \A i \in DOMAIN results : \A h \in 0..QueryLen :
            IsRounded(results[i].relevance_score,
                      ScoreNum(MatchCount(results[i].cluster_id), h), ScoreDen)
                <=> h = TitleHits(results[i].title)

\* a returned article's title holds a raw keyword that its cluster does not
\* hold, and does not hold another raw keyword ("A ") whose stripped form ("a")
\* it does hold
C20_Witness ==
    /\ ArticleCall
    /\ \E i \in DOMAIN results :
           /\ \E k \in 1..QueryLen :
                  /\ Normalize(QueryUsed[k]) \notin KeywordSetOf(results[i].cluster_id)
                  /\ RawInTitle(results[i].title, k)
           /\ \E k \in 1..QueryLen :
                  /\ ~RawInTitle(results[i].title, k)
                  /\ Contains(Lower(results[i].title), Normalize(QueryUsed[k]))

\* the faults of a resource that the spec counts as a failed load, and those
\* among them on which the code raises
BadSource(n) == fileStatus[n] # "ok"
RaisingSource(n) == fileStatus[n] \in {"missing", "unreadable", "malformed", "not_object"}
ArticleSources == FileNames
ClusterSources == {"unigram", "bigram"}

(* C18 as stated: a recommender is never built from a corpus source that is    *)
(* missing, unreadable or structurally invalid, a JSON object without its      *)
(* "articles" or "clusters" key included: the load raises instead.             *)
C18_LoadFailsOnBadSource ==
    /\ recommender_instance # None => \A n \in ArticleSources : ~BadSource(n)
    /\ cluster_recommender_instance # None => \A n \in ClusterSources : ~BadSource(n)

(* C19: when the load of a recommender raises, its singleton stays unset, the  *)
(* call that asked for it ends with that exception and no result, and so does  *)
(* every later call; a ranking call that returns has run on a recommender      *)
(* whose maps and index are those the constructor builds from the files.       *)
C19_NoServiceAfterFailedLoad ==
    /\ (\E n \in ArticleSources : RaisingSource(n)) =>
           /\ recommender_instance = None
           /\ ~ArticleCall
    /\ (\E n \in ClusterSources : RaisingSource(n)) =>
           /\ cluster_recommender_instance = None
           /\ ~ClusterCall
    /\ pc = "failed" =>
           /\ raised # "none"
           /\ results = <<>>
           /\ call.op = "articles" => recommender_instance = None
           /\ call.op = "clusters" => cluster_recommender_instance = None
    /\ ArticleCall =>
           /\ recommender_instance # None
           /\ recommender_instance[1] = NewArticleRecommender(files, fileStatus)
    /\ ClusterCall =>
           /\ cluster_recommender_instance # None
           /\ cluster_recommender_instance[1] = NewClusterRecommender(files)

\* clustersPMC.json is not valid JSON: the cluster recommender, which does not
\* read it, is loaded, and a call for articles has ended with the exception
C19_Witness ==
    /\ fileStatus.clusters = "malformed"
    /\ pc = "failed"
    /\ call.op = "articles"
    /\ raised = "JSONDecodeError"
    /\ recommender_instance = None
    /\ cluster_recommender_instance # None

\* what the call of thread t returns when no other call runs
AloneResult(t) ==
    IF threads[t].op = "clusters"
    THEN FindBestCluster(cluster_recommender_instance[1], threads[t].keywords,
                         threads[t].top_n).value
    ELSE FindArticlesByKeywords(recommender_instance[1], threads[t].keywords,
                                threads[t].top_n).value

\* thread t holds the recommender that get_*_recommender returned to it
HasRecommender(t) == threads[t].pc \in {"score", "collect", "done"}

(* C16: under every interleaving of the steps of the ranking calls of the      *)
(* worker threads, a call returns the list it returns when it runs alone.      *)
C16_ConcurrentCallsAsAlone ==
    \A t \in Threads : threads[t].pc = "done" => threads[t].result = AloneResult(t)

\* a call for articles has returned two articles while the call of the other
\* thread, which entered its getter at the same time, is collecting articles
\* and has one of the two in its seen_pmcs
C16_Witness ==
    \E t, u \in Threads :
        /\ threads[t].pc = "done"
        /\ threads[t].op = "articles"
        /\ Len(threads[t].result) = 2
        /\ threads[u].pc = "collect"
        /\ threads[u].todo # <<>>
        /\ threads[t].recommender # threads[u].recommender
        /\ \E i \in DOMAIN threads[t].result :
               threads[t].result[i].pmc_id \in threads[u].acc.seen_pmcs

(* C17 as stated: under every interleaving of the first calls of the worker    *)
(* threads, the constructor of each recommender completes at most once and all *)
(* callers of one getter receive the same object.                              *)
C17_ConstructedOnce ==
    /\ \A class \in Classes : heap[class].made <= 1
    /\ \A t, u \in Threads :
           (HasRecommender(t) /\ HasRecommender(u) /\ threads[t].op = threads[u].op) =>
               threads[t].recommender = threads[u].recommender

(* C21: every cluster returned by find_best_cluster has as matched_keywords    *)
(* exactly the normalized query keywords that are in its merged keyword set,   *)
(* at least one; and every cluster that holds a query keyword is a candidate:  *)
(* the list has min(top_n, number of such clusters) entries, all of them such  *)
(* clusters.                                                                   *)
C21_MatchedKeywordsExact ==
    ClusterCall =>
        /\ \A i \in DOMAIN results :
               /\ results[i].matched_keywords =
                      NormalizedQuery \cap KeywordSetOf(results[i].cluster_id)
               /\ results[i].matched_keywords # {}
        /\ ReturnedClusters \subseteq MatchingClusters
        /\ Len(results) = Min(call.top_n, Cardinality(MatchingClusters))
        /\ call.top_n >= Cardinality(MatchingClusters) => ReturnedClusters = MatchingClusters

\* both clusters are returned for a query of two distinct keywords: one holds
\* the two, the other lacks one of them and is reported with the other alone
C21_Witness ==
    /\ ClusterCall
    /\ Len(results) = 2
    /\ Cardinality(NormalizedQuery) = 2
    /\ \E i, j \in DOMAIN results :
           /\ results[i].matched_keywords = NormalizedQuery
           /\ NormalizedQuery \ KeywordSetOf(results[j].cluster_id) # {}
           /\ Cardinality(results[j].matched_keywords) = 1

\* the entries of a cluster in the two keyword files, as written there
RawKeywordCount(c) == Len(Get(files.unigram, c, <<>>)) + Len(Get(files.bigram, c, <<>>))

(* C22: every cluster returned by find_best_cluster has as                     *)
(* total_keywords_in_cluster the size of its merged unigram+bigram keyword     *)
(* set, a keyword that two entries normalize to counted once; the score is the *)
(* rounded matched-count / L and the order is that of the score, then of the   *)
(* order in which the clusters were met, whatever the totals are.              *)
C22_TotalIsKeywordSetSize ==
    ClusterCall =>
        /\ \A i \in DOMAIN results :
               /\ results[i].total_keywords_in_cluster =
                      Cardinality(KeywordSetOf(results[i].cluster_id))
               /\ results[i].relevance_score =
                      Nearest(MatchCount(results[i].cluster_id), QueryLen)
        /\ \A i, j \in DOMAIN results :
               i < j => WalkedBefore(results[i].cluster_id, results[j].cluster_id)

\* two clusters of equal score are returned, the one of smaller total first;
\* that one has "a" in one file and "A " in the other, and a total of 1
C22_Witness ==
    /\ ClusterCall
    /\ Len(results) = 2
    /\ results[1].relevance_score = results[2].relevance_score
    /\ results[1].total_keywords_in_cluster = 1
    /\ RawKeywordCount(results[1].cluster_id) = 2
    /\ results[2].total_keywords_in_cluster = 2

\* what find_best_cluster of the loaded ClusterRecommender returns for the
\* keywords of the last call when top_n lets every candidate through
AllClustersRanked ==
    FindBestCluster(cluster_recommender_instance[1], call.keywords,
                    Cardinality(ClusterIds)).value

(* C23: every article returned by find_articles_by_keywords carries a          *)
(* cluster_id and a matched_keywords set that find_best_cluster, asked for     *)
(* every candidate with the same query, reports for that cluster, and its      *)
(* score is cluster_score * (0.8 + 0.2 * title_boost) rounded, for the         *)
(* cluster_score n / L whose rounding is that cluster's relevance_score.       *)
C23_RankersAgree ==
    (ArticleCall /\ cluster_recommender_instance # None) =>
        \A i \in DOMAIN results : \E j \in DOMAIN AllClustersRanked :
            /\ AllClustersRanked[j].cluster_id = results[i].cluster_id
            /\ AllClustersRanked[j].matched_keywords = results[i].matched_keywords
            /\ \E n \in 1..QueryLen :
                   /\ Nearest(n, QueryLen) = AllClustersRanked[j].relevance_score
                   /\ IsRounded(results[i].relevance_score,
                                ScoreNum(n, TitleHits(results[i].title)), ScoreDen)

\* both recommenders are loaded; the article ranker returned articles of two
\* clusters of different score, one of them matched on "a b", which comes
\* from bigramKeywords.json, and on "a", asked for as "A "
C23_Witness ==
    /\ ArticleCall
    /\ cluster_recommender_instance # None
    /\ Len(AllClustersRanked) = 2
    /\ AllClustersRanked[1].relevance_score > AllClustersRanked[2].relevance_score
    /\ \E i, j \in DOMAIN results :
           /\ results[i].cluster_id # results[j].cluster_id
           /\ {<<"a", " ", "b">>, <<"a">>} \subseteq results[i].matched_keywords
    /\ \E k \in 1..QueryLen : QueryUsed[k] = <<"A", " ">>

(* C24 as stated: for every query, one with a repeated keyword included, the   *)
(* relevance_score of a returned cluster is the number of entries of its       *)
(* matched_keywords set over the number of normalized query keywords, and the  *)
(* cluster score in an article's final score is that ratio for the matched set *)
(* the article carries; both taken up to the rounding to 4 places.             *)
C24_ScoreIsMatchedSetRatio ==
    /\ ClusterCall =>
           \A i \in DOMAIN results :
               results[i].relevance_score =
                   Nearest(Cardinality(results[i].matched_keywords), QueryLen)
    /\ ArticleCall =>
           \A i \in DOMAIN results :
               IsRounded(results[i].relevance_score,
                         ScoreNum(Cardinality(results[i].matched_keywords),
                                  TitleHits(results[i].title)),
                         ScoreDen)

(* C25: for every query of at most 5 keywords, a returned article attributed   *)
(* to a cluster of strictly higher cluster score than that of another returned *)
(* article does not have a strictly lower final score, whatever the titles.    *)
C25_ClusterDominatesTitle ==
    (ArticleCall /\ Len(call.keywords) <= MaxKeywords) =>
        \A i, j \in DOMAIN results :
            MatchCount(results[i].cluster_id) > MatchCount(results[j].cluster_id) =>
                results[i].relevance_score >= results[j].relevance_score

\* 5 keywords: one article is of a cluster that holds the 5 and has none in
\* its title, the other is of a cluster that holds 4 and has the 5 in its
\* title; both score 0.8
C25_Witness ==
    /\ ArticleCall
    /\ Len(call.keywords) = MaxKeywords
    /\ \E i, j \in DOMAIN results :
           /\ MatchCount(results[i].cluster_id) = 5
           /\ TitleHits(results[i].title) = 0
           /\ MatchCount(results[j].cluster_id) = 4
           /\ TitleHits(results[j].title) = 5
           /\ results[i].relevance_score = 8000
           /\ results[j].relevance_score = 8000

\* cluster_score * (0.8 + 0.2 * title_boost), rounded, of article p taken as
\* an article of the matching cluster c
ScoreVia(p, c) == Nearest(ScoreNum(MatchCount(c), TitleHits(TitleIn(p))), ScoreDen)

(* C26: the final score of every returned article is the highest, over the     *)
(* matching clusters that list the article, of                                 *)
(* cluster_score * (0.8 + 0.2 * title_boost) rounded to 4 places: being kept   *)
(* once does not lower the score of an article.                                *)
C26_DedupKeepsBestScore ==
    ArticleCall =>
        \A i \in DOMAIN results :
            /\ \A c \in ClustersOf(results[i].pmc_id) :
                   ScoreVia(results[i].pmc_id, c) <= results[i].relevance_score
            /\ \E c \in ClustersOf(results[i].pmc_id) :
                   ScoreVia(results[i].pmc_id, c) = results[i].relevance_score

\* a returned article is listed by two matching clusters; the one through
\* which it would score less was met first when the keywords were looked up
C26_Witness ==
    /\ ArticleCall
    /\ \E i \in DOMAIN results : \E c, d \in ClustersOf(results[i].pmc_id) :
           /\ ScoreVia(results[i].pmc_id, c) < ScoreVia(results[i].pmc_id, d)
           /\ FirstHit(c) = FirstHit(d)
           /\ HashPos(c) < HashPos(d)

\* what the ranker of the last call returns for the same keywords with top_n = m
RankedWith(m) ==
    IF call.op = "clusters"
    THEN FindBestCluster(cluster_recommender_instance[1], call.keywords, m).value
    ELSE FindArticlesByKeywords(recommender_instance[1], call.keywords, m).value

\* the candidates of the last call: the matching clusters, or the titled
\* articles that they list
CandidateCount ==
    IF call.op = "clusters" THEN Cardinality(MatchingClusters)
    ELSE Cardinality(TitledCandidates)

(* C27: for top_n = n >= 0, the list that either ranker returns is the first n *)
(* entries of the list it returns for the same query with any top_n = m >= n,  *)
(* and its length is min(n, number of candidates).                             *)
C27_PrefixConsistent ==
    pc = "returned" =>
        /\ \A m \in call.top_n..(MaxTopN + 1) :
               results = SubSeq(RankedWith(m), 1, Min(call.top_n, Len(RankedWith(m))))
        /\ Len(results) = Min(call.top_n, CandidateCount)

\* the article ranker is asked for 1 article when 2 are candidates, and
\* returns the one that is not collected first
C27_Witness ==
    /\ ArticleCall
    /\ call.top_n = 1
    /\ Len(results) = 1
    /\ CandidateCount = 2
    /\ \E c \in ClustersOf(results[1].pmc_id) : \E k, n \in DOMAIN ListOf(c) :
           k < n /\ ListOf(c)[n] = results[1].pmc_id /\ ListOf(c)[k] \in TitledCandidates
    /\ RankedWith(2)[2].relevance_score < results[1].relevance_score

\* the raw keywords of the answer that the last service call worked on
RawOfAnswer ==
    IF Strip(service.answer) = <<>> THEN <<>> ELSE RawKeywords(Strip(service.answer))

(* C28: the keyword list that extract and recommend hand to the rankers has at *)
(* most 5 entries, no entry twice, and only terms of the lowercased            *)
(* vocabulary, each equal to a raw keyword of the answer, or part of one, or   *)
(* having one as a part; it is handed to the ranker of the service with        *)
(* limit 5, and when it is empty no ranker is called, no index is read and the *)
(* list of articles or clusters is empty.                                      *)
C28_ValidatedKeywords ==
    pc = "replied" =>
        /\ Len(service.keywords) <= 5
        /\ \A i, j \in DOMAIN service.keywords :
               i # j => service.keywords[i] # service.keywords[j]
        /\ \A k \in Range(service.keywords) :
               /\ k \in VocabularyLower(vocabulary)
               /\ \E raw \in Range(RawOfAnswer) :
                      k = raw \/ Contains(k, raw) \/ Contains(raw, k)
        /\ service.keywords # <<>> =>
               call = [op |-> IF service.op = "extract" THEN "articles" ELSE "clusters",
                       keywords |-> service.keywords,
                       top_n |-> 5]
        /\ service.keywords = <<>> =>
               /\ call = NoCall
               /\ lookups = 0
               /\ results = <<>>
               /\ service.items = <<>>

\* extract has answered with articles for an answer of more than 5 raw
\* keywords, one of them twice and one of them in no vocabulary entry but
\* with a part that is: 6 terms were validated and 5 handed on
C28_Witness ==
    /\ pc = "replied"
    /\ service.op = "extract"
    /\ service.items # <<>>
    /\ Len(RawOfAnswer) > 5
    /\ \E i, j \in DOMAIN RawOfAnswer : i < j /\ RawOfAnswer[i] = RawOfAnswer[j]
    /\ \E i \in DOMAIN RawOfAnswer :
           /\ RawOfAnswer[i] \notin VocabularyLower(vocabulary)
           /\ Matches(vocabOrder, RawOfAnswer[i]) # <<>>
           /\ Matches(vocabOrder, RawOfAnswer[i])[1] \in Range(service.keywords)
    /\ Len(Validated(vocabOrder, Strip(service.answer))) = 6
    /\ Len(service.keywords) = 5

====
